---------------------------- MODULE Spec2Model ----------------------------
(***************************************************************************)
(* Model of the GalaChain launchpad's batch-submit authority registry      *)
(* (authorize / deauthorize / list / isAuthorized over the singleton       *)
(* LaunchpadBatchSubmitAuthorities record) and of the class-validator      *)
(* decorators of src/api/validators/decorators.ts.                         *)
(***************************************************************************)
EXTENDS Integers, Sequences, FiniteSets, TLC

(***************************************************************************)
(* Bounds of the model.                                                    *)
(***************************************************************************)
\* longest dto.authorities list an authorize request carries
MaxDto == 2

\* Principal identifiers (ctx.callingUser, dto.authority, dto.authorities[i]).
Principals == {"alice", "bob", "carol"}

\* dto.authorities of AuthorizeBatchSubmitterDto: a non-empty list, which may
\* name the same principal more than once.
AuthorizeDtos == UNION {[1..n -> Principals] : n \in 1..MaxDto}

Range(s) == {s[i] : i \in 1..Len(s)}

NoDuplicates(s) == \A i, j \in 1..Len(s) : i # j => s[i] # s[j]

(***************************************************************************)
(* State.                                                                  *)
(*   ledger    the world state under the composite key                     *)
(*             (LaunchpadBatchSubmitAuthorities.INDEX_KEY, []): whether    *)
(*             the record has been written, and its authorities array      *)
(*   response  the outcome of the last request: its operation, caller and  *)
(*             input, whether it returned or threw, and what it returned   *)
(*   calls     the store calls the last request issued, in order           *)
(*   prior     history: the ledger as the last request found it            *)
(*   granted   history: the principals authorized and not deauthorized     *)
(*             afterwards by the successful requests so far                *)
(***************************************************************************)
VARIABLES ledger, response, calls, prior, granted

regVars == <<ledger, response, calls, prior, granted>>

(***************************************************************************)
(* State of two requests in flight at once (used where the steps of the    *)
(* handlers interleave at their awaits).                                   *)
(*   tx      per request: where it stands (pc), its operation and dto, the *)
(*           authorities object it holds in memory, what it returned, and  *)
(*           history: the number of writes the ledger had seen when the    *)
(*           request read (readAt) and once it had written (wroteAt), and  *)
(*           the authorities it read (seen)                                *)
(*   writes  history: the number of putChainObject calls so far            *)
(***************************************************************************)
VARIABLES tx, writes

concVars == <<tx, writes>>

(***************************************************************************)
(* State of the validators.                                                *)
(*   value, relatedValue  the decorated property and the property named by *)
(*                        the decorator's argument, on one object          *)
(*   verdict      the last validate() call: its validator and outcome      *)
(*   constraints  the validation metadata registered for the property, in  *)
(*                registration order                                       *)
(*   violations   the constraints the last validation of the object found  *)
(*                violated, in registration order                          *)
(*   inserted     history: a duplicate was inserted into a passing pair    *)
(***************************************************************************)
VARIABLES value, relatedValue, verdict, constraints, violations, inserted

valVars == <<value, relatedValue, verdict, constraints, violations, inserted>>

Absent == [exists |-> FALSE, authorities |-> <<>>]

Record(auths) == [exists |-> TRUE, authorities |-> auths]

NoResponse ==
  [op |-> "none", caller |-> "", dto |-> <<>>, status |-> "none",
   authorities |-> <<>>, value |-> FALSE]

Returned(op, caller, dto, auths, bool) ==
  [op |-> op, caller |-> caller, dto |-> dto, status |-> "ok",
   authorities |-> auths, value |-> bool]

Threw(op, caller, dto, code) ==
  [op |-> op, caller |-> caller, dto |-> dto, status |-> code,
   authorities |-> <<>>, value |-> FALSE]

(***************************************************************************)
(* The store (getObjectByKey / putChainObject of @gala-chain/chaincode).   *)
(***************************************************************************)
\* getObjectByKey(ctx, LaunchpadBatchSubmitAuthorities, key): the stored
\* object, or a NOT_FOUND ChainError when nothing is stored under the key.
GetObjectByKey(l) ==
  IF l.exists THEN [status |-> "ok", authorities |-> l.authorities]
  ELSE [status |-> "NOT_FOUND", authorities |-> <<>>]

\* putChainObject(ctx, authorities): the record now holds the object.
PutChainObject(auths) == Record(auths)

(***************************************************************************)
(* LaunchpadBatchSubmitAuthorities (the chain object of "../../api").      *)
(***************************************************************************)
\* addAuthority: appends the principal unless it is already held.
AddAuthority(auths, p) == IF p \in Range(auths) THEN auths ELSE Append(auths, p)

\* removeAuthority: drops the principal; no change when it is not held.
RemoveAuthority(auths, p) == SelectSeq(auths, LAMBDA a : a # p)

\* isAuthorized: membership.
IsAuthorizedUser(auths, p) == p \in Range(auths)

\* getAuthorities: the held principals.
GetAuthorities(auths) == auths

(***************************************************************************)
(* fetchLaunchpadBatchSubmitAuthorities: getObjectByKey under the          *)
(* singleton key; a NOT_FOUND propagates.                                  *)
(***************************************************************************)
FetchLaunchpadBatchSubmitAuthorities(l) == GetObjectByKey(l)

(***************************************************************************)
(* authorizeLaunchpadBatchSubmitter                                        *)
(***************************************************************************)
\* lines 96-103: getObjectByKey, a NOT_FOUND caught into a new empty object
FetchOrDefault(l) ==
  LET got == GetObjectByKey(l)
  IN  IF got.status = "NOT_FOUND" THEN <<>> ELSE got.authorities

\* a loop that pushes every entry without going through addAuthority
AddAllPush(auths, dto) == auths \o dto

\* lines 106-108: for (const authority of dto.authorities) addAuthority
RECURSIVE AddAll(_, _)
AddAll(auths, dto) ==
  IF dto = <<>> THEN auths
  ELSE AddAll(AddAuthority(auths, Head(dto)), Tail(dto))

\* an authorize that answers with the list as it was read, not as written
AuthorizeStaleResponse(caller, dto) ==
  LET authorities == AddAll(FetchOrDefault(ledger), dto)
  IN  /\ ledger' = PutChainObject(authorities)
      /\ response' = Returned("authorize", caller, dto,
                              GetAuthorities(FetchOrDefault(ledger)), FALSE)
      /\ calls' = <<"getObjectByKey", "putChainObject">>
      /\ prior' = ledger
      /\ granted' = granted \cup Range(dto)

Authorize(caller, dto) ==
  LET authorities == AddAll(FetchOrDefault(ledger), dto)
  IN  /\ ledger' = PutChainObject(authorities)
      /\ response' = Returned("authorize", caller, dto,
                              GetAuthorities(authorities), FALSE)
      /\ calls' = <<"getObjectByKey", "putChainObject">>
      /\ prior' = ledger
      /\ granted' = granted \cup Range(dto)

(***************************************************************************)
(* deauthorizeLaunchpadBatchSubmitter                                      *)
(***************************************************************************)
\* a deauthorize that reads with the fetch-or-default of authorize
DeauthorizeLazy(caller, p) ==
  LET authorities == RemoveAuthority(FetchOrDefault(ledger), p)
  IN  /\ ledger' = PutChainObject(authorities)
      /\ response' = Returned("deauthorize", caller, <<p>>,
                              GetAuthorities(authorities), FALSE)
      /\ calls' = <<"getObjectByKey", "putChainObject">>
      /\ prior' = ledger
      /\ granted' = granted \ {p}

\* a deauthorize that never writes the mutated object back
DeauthorizeNoPut(caller, p) ==
  LET got == FetchLaunchpadBatchSubmitAuthorities(ledger)
  IN  /\ prior' = ledger
      /\ ledger' = ledger
      /\ calls' = <<"getObjectByKey">>
      /\ IF got.status = "NOT_FOUND"
         THEN /\ response' = Threw("deauthorize", caller, <<p>>, "NOT_FOUND")
              /\ granted' = granted
         ELSE /\ response' = Returned("deauthorize", caller, <<p>>,
                      GetAuthorities(RemoveAuthority(got.authorities, p)), FALSE)
              /\ granted' = granted \ {p}

\* a deauthorize that deletes the record once it holds no principal
DeauthorizeDeleteWhenEmpty(caller, p) ==
  LET got == FetchLaunchpadBatchSubmitAuthorities(ledger)
  IN  /\ prior' = ledger
      /\ IF got.status = "NOT_FOUND"
         THEN /\ response' = Threw("deauthorize", caller, <<p>>, "NOT_FOUND")
              /\ calls' = <<"getObjectByKey">>
              /\ UNCHANGED <<ledger, granted>>
         ELSE LET authorities == RemoveAuthority(got.authorities, p)
              IN  /\ ledger' = IF authorities = <<>> THEN Absent
                               ELSE PutChainObject(authorities)
                  /\ response' = Returned("deauthorize", caller, <<p>>,
                                          GetAuthorities(authorities), FALSE)
                  /\ calls' = <<"getObjectByKey", "putChainObject">>
                  /\ granted' = granted \ {p}

Deauthorize(caller, p) ==
  LET got == FetchLaunchpadBatchSubmitAuthorities(ledger)
  IN  /\ prior' = ledger
      /\ IF got.status = "NOT_FOUND"
         THEN /\ response' = Threw("deauthorize", caller, <<p>>, "NOT_FOUND")
              /\ calls' = <<"getObjectByKey">>
              /\ UNCHANGED <<ledger, granted>>
         ELSE LET authorities == RemoveAuthority(got.authorities, p)
              IN  /\ ledger' = PutChainObject(authorities)
                  /\ response' = Returned("deauthorize", caller, <<p>>,
                                          GetAuthorities(authorities), FALSE)
                  /\ calls' = <<"getObjectByKey", "putChainObject">>
                  /\ granted' = granted \ {p}

(***************************************************************************)
(* getLaunchpadBatchSubmitAuthorities (list)                               *)
(***************************************************************************)
GetLaunchpadBatchSubmitAuthorities(caller) ==
  LET got == FetchLaunchpadBatchSubmitAuthorities(ledger)
  IN  /\ prior' = ledger
      /\ calls' = <<"getObjectByKey">>
      /\ response' = IF got.status = "NOT_FOUND"
                     THEN Threw("list", caller, <<>>, "NOT_FOUND")
                     ELSE Returned("list", caller, <<>>,
                                   GetAuthorities(got.authorities), FALSE)
      /\ UNCHANGED <<ledger, granted>>

(***************************************************************************)
(* isAuthorizedForLaunchpadBatchSubmit                                     *)
(***************************************************************************)
IsAuthorizedForLaunchpadBatchSubmit(caller) ==
  LET got == FetchLaunchpadBatchSubmitAuthorities(ledger)
  IN  /\ prior' = ledger
      /\ calls' = <<"getObjectByKey">>
      /\ response' = IF got.status = "NOT_FOUND"
                     THEN Threw("isAuthorized", caller, <<>>, "NOT_FOUND")
                     ELSE Returned("isAuthorized", caller, <<>>, <<>>,
                                   IsAuthorizedUser(got.authorities, caller))
      /\ UNCHANGED <<ledger, granted>>

(***************************************************************************)
(* Rest states of the parts a specification does not exercise.             *)
(***************************************************************************)
Requests == {"r1", "r2"}

IdleTx ==
  [pc |-> "idle", op |-> "none", dto |-> <<>>, authorities |-> <<>>,
   status |-> "none", result |-> <<>>, readAt |-> 0, wroteAt |-> 0, seen |-> <<>>]

ConcIdle ==
  /\ tx = [r \in Requests |-> IdleTx]
  /\ writes = 0

Undefined == [type |-> "undefined", v |-> ""]

NoVerdict == [validator |-> "none", outcome |-> "none"]

ValIdle ==
  /\ value = Undefined
  /\ relatedValue = Undefined
  /\ verdict = NoVerdict
  /\ constraints = <<>>
  /\ violations = <<>>
  /\ inserted = FALSE

(***************************************************************************)
(* Serial execution: every request runs to completion before the next.     *)
(***************************************************************************)
RegInit ==
  /\ ledger = Absent
  /\ response = NoResponse
  /\ calls = <<>>
  /\ prior = Absent
  /\ granted = {}

AuthorizeStep ==
  /\ \E caller \in Principals, dto \in AuthorizeDtos : Authorize(caller, dto)
  /\ UNCHANGED <<concVars, valVars>>

DeauthorizeStep ==
  /\ \E caller \in Principals, p \in Principals : Deauthorize(caller, p)
  /\ UNCHANGED <<concVars, valVars>>

ListStep ==
  /\ \E caller \in Principals : GetLaunchpadBatchSubmitAuthorities(caller)
  /\ UNCHANGED <<concVars, valVars>>

IsAuthorizedStep ==
  /\ \E caller \in Principals : IsAuthorizedForLaunchpadBatchSubmit(caller)
  /\ UNCHANGED <<concVars, valVars>>

Init == RegInit /\ ConcIdle /\ ValIdle

Next ==
  \/ AuthorizeStep
  \/ DeauthorizeStep
  \/ ListStep
  \/ IsAuthorizedStep

vars == <<regVars, concVars, valVars>>

Spec == Init /\ [][Next]_vars

(***************************************************************************)
(* Interleaved execution: two requests in flight, each handler advancing   *)
(* from one await to the next (the getObjectByKey, the putChainObject, the *)
(* return), with nothing in the handlers ordering one request's steps      *)
(* against the other's.                                                    *)
(***************************************************************************)
\* longest dto.authorities list of a request in flight
MaxConcDto == 1

ConcDtos == UNION {[1..n -> Principals] : n \in 1..MaxConcDto}

\* the records serial execution can leave behind
ReachableLedgers ==
  {Absent} \cup
  {Record(s) : s \in {q \in UNION {[1..n -> Principals] : n \in 0..Cardinality(Principals)} :
                        NoDuplicates(q)}}

ConcInit ==
  /\ ledger \in ReachableLedgers
  /\ response = NoResponse
  /\ calls = <<>>
  /\ prior = Absent
  /\ granted = {}
  /\ ConcIdle
  /\ ValIdle

\* a request arrives: the handler is entered with its dto
ConcStart(r, op, dto) ==
  /\ tx[r].pc = "idle"
  /\ tx' = [tx EXCEPT ![r] = [@ EXCEPT !.pc = "read", !.op = op, !.dto = dto]]
  /\ UNCHANGED <<ledger, writes>>

\* the read resolves: authorize defaults a NOT_FOUND to an empty object,
\* deauthorize lets it propagate
ConcRead(r) ==
  /\ tx[r].pc = "read"
  /\ LET got == GetObjectByKey(ledger)
     IN  IF tx[r].op = "deauthorize" /\ got.status = "NOT_FOUND"
         THEN tx' = [tx EXCEPT ![r] = [@ EXCEPT !.pc = "done",
                                                !.status = "NOT_FOUND",
                                                !.readAt = writes]]
         ELSE tx' = [tx EXCEPT ![r] = [@ EXCEPT !.pc = "put",
                                                !.authorities = FetchOrDefault(ledger),
                                                !.seen = FetchOrDefault(ledger),
                                                !.readAt = writes]]
  /\ UNCHANGED <<ledger, writes>>

\* the object as the handler has mutated it in memory
Mutated(t) ==
  IF t.op = "authorize" THEN AddAll(t.authorities, t.dto)
  ELSE RemoveAuthority(t.authorities, t.dto[1])

\* a write that merges into what the record holds at the time of the write
ConcPutMerging(r) ==
  /\ tx[r].pc = "put"
  /\ LET authorities == Mutated([tx[r] EXCEPT !.authorities = FetchOrDefault(ledger)])
     IN  /\ ledger' = PutChainObject(authorities)
         /\ writes' = writes + 1
         /\ tx' = [tx EXCEPT ![r] = [@ EXCEPT !.pc = "respond",
                                              !.authorities = authorities,
                                              !.wroteAt = writes + 1]]

\* the in-memory object is mutated and written over the record
ConcPut(r) ==
  /\ tx[r].pc = "put"
  /\ LET authorities == Mutated(tx[r])
     IN  /\ ledger' = PutChainObject(authorities)
         /\ writes' = writes + 1
         /\ tx' = [tx EXCEPT ![r] = [@ EXCEPT !.pc = "respond",
                                              !.authorities = authorities,
                                              !.wroteAt = writes + 1]]

\* the write has resolved: the handler returns the in-memory list
ConcRespond(r) ==
  /\ tx[r].pc = "respond"
  /\ tx' = [tx EXCEPT ![r] = [@ EXCEPT !.pc = "done", !.status = "ok",
                                       !.result = GetAuthorities(tx[r].authorities)]]
  /\ UNCHANGED <<ledger, writes>>

ConcStartAuthorizeStep ==
  /\ \E r \in Requests, dto \in ConcDtos : ConcStart(r, "authorize", dto)
  /\ UNCHANGED <<response, calls, prior, granted, valVars>>

ConcStartDeauthorizeStep ==
  /\ \E r \in Requests, p \in Principals : ConcStart(r, "deauthorize", <<p>>)
  /\ UNCHANGED <<response, calls, prior, granted, valVars>>

ConcReadStep ==
  /\ \E r \in Requests : ConcRead(r)
  /\ UNCHANGED <<response, calls, prior, granted, valVars>>

ConcPutStep ==
  /\ \E r \in Requests : ConcPut(r)
  /\ UNCHANGED <<response, calls, prior, granted, valVars>>

ConcRespondStep ==
  /\ \E r \in Requests : ConcRespond(r)
  /\ UNCHANGED <<response, calls, prior, granted, valVars>>

ConcNext ==
  \/ ConcStartAuthorizeStep
  \/ ConcStartDeauthorizeStep
  \/ ConcReadStep
  \/ ConcPutStep
  \/ ConcRespondStep

SpecConc == ConcInit /\ [][ConcNext]_vars

(***************************************************************************)
(* JavaScript values, as far as the validators tell them apart: the        *)
(* typeof tag and a printed content.                                       *)
(***************************************************************************)
JsString(str) == [type |-> "string", v |-> str]

JsNumber(n) == [type |-> "number", v |-> n]

JsBoolean(b) == [type |-> "boolean", v |-> b]

\* typeof null is "object"
JsNull == [type |-> "object", v |-> "null"]

JsArray(elems) == [type |-> "array", v |-> elems]

\* a BigNumber instance, by its printed value
JsBigNumber(n) == [type |-> "BigNumber", v |-> n]

TypeOf(x) == IF x.type \in {"array", "BigNumber"} THEN "object" ELSE x.type

ScalarValues ==
  {Undefined, JsNull, JsBoolean("true")}
    \cup {JsString(str) : str \in {"", "a", "b"}}
    \cup {JsNumber(n) : n \in {"0", "1"}}

Verdict(name, passed) ==
  [validator |-> name, outcome |-> IF passed THEN "pass" ELSE "fail"]

Thrown(name) == [validator |-> name, outcome |-> "throw"]

(***************************************************************************)
(* IsDifferentValue                                                        *)
(***************************************************************************)
\* a validate that forgets the type check of the related property
IsDifferentValueUncheckedRelated(val, related) ==
  IF TypeOf(val) # "string" /\ val # Undefined
  THEN Thrown("IsDifferentValue")
  ELSE Verdict("IsDifferentValue", val # related)

\* validate(value, args): lines 49-59
IsDifferentValueValidate(val, related) ==
  IF \/ (TypeOf(val) # "string" /\ val # Undefined)
     \/ (TypeOf(related) # "string" /\ related # Undefined)
  THEN Thrown("IsDifferentValue")
  ELSE Verdict("IsDifferentValue", val # related)

DiffInit ==
  /\ RegInit
  /\ ConcIdle
  /\ value \in ScalarValues
  /\ relatedValue \in ScalarValues
  /\ verdict = NoVerdict
  /\ constraints = <<>>
  /\ violations = <<>>
  /\ inserted = FALSE

ValidateIsDifferentValue ==
  /\ verdict' = IsDifferentValueValidate(value, relatedValue)
  /\ UNCHANGED <<value, relatedValue, constraints, violations, inserted>>
  /\ UNCHANGED <<regVars, concVars>>

DiffNext == ValidateIsDifferentValue

SpecDiff == DiffInit /\ [][DiffNext]_vars

(***************************************************************************)
(* ArrayUniqueConcat                                                       *)
(***************************************************************************)
\* longest array drawn for either property
MaxLen == 2

Tokens == {"t1", "t2", "t3"}

Arrays == {JsArray(q) : q \in UNION {[1..n -> Tokens] : n \in 0..MaxLen}}

\* new Set(iterable).size, for elements compared by value
SetSize(elems) == Cardinality(Range(elems))

\* a validate that looks for duplicates in the decorated array alone
ArrayUniqueValueOnly(val, related) ==
  Verdict("ArrayUniqueConcat", SetSize(val.v) = Len(val.v))

\* validate(value, args): lines 74-82
ArrayUniqueConcatValidate(val, related) ==
  LET totalUniques == SetSize(related.v \o val.v)
  IN  Verdict("ArrayUniqueConcat", totalUniques = Len(related.v) + Len(val.v))

InsertAt(elems, i, e) == SubSeq(elems, 1, i - 1) \o <<e>> \o SubSeq(elems, i, Len(elems))

ArrInit ==
  /\ RegInit
  /\ ConcIdle
  /\ value \in Arrays
  /\ relatedValue \in Arrays
  /\ verdict = NoVerdict
  /\ constraints = <<>>
  /\ violations = <<>>
  /\ inserted = FALSE

ValidateArrayUniqueConcat ==
  /\ verdict' = ArrayUniqueConcatValidate(value, relatedValue)
  /\ UNCHANGED <<value, relatedValue, constraints, violations, inserted>>
  /\ UNCHANGED <<regVars, concVars>>

\* the caller builds another object from a passing one: an element either
\* array already holds is inserted once more into the decorated array
InsertDuplicateIntoValue ==
  /\ verdict = Verdict("ArrayUniqueConcat", TRUE)
  /\ \E e \in Range(value.v) \cup Range(relatedValue.v), i \in 1..(Len(value.v) + 1) :
       value' = JsArray(InsertAt(value.v, i, e))
  /\ verdict' = NoVerdict
  /\ inserted' = TRUE
  /\ UNCHANGED <<relatedValue, constraints, violations>>
  /\ UNCHANGED <<regVars, concVars>>

\* the same, into the related array
InsertDuplicateIntoRelated ==
  /\ verdict = Verdict("ArrayUniqueConcat", TRUE)
  /\ \E e \in Range(value.v) \cup Range(relatedValue.v), i \in 1..(Len(relatedValue.v) + 1) :
       relatedValue' = JsArray(InsertAt(relatedValue.v, i, e))
  /\ verdict' = NoVerdict
  /\ inserted' = TRUE
  /\ UNCHANGED <<value, constraints, violations>>
  /\ UNCHANGED <<regVars, concVars>>

ArrNext ==
  \/ ValidateArrayUniqueConcat
  \/ InsertDuplicateIntoValue
  \/ InsertDuplicateIntoRelated

SpecArr == ArrInit /\ [][ArrNext]_vars

(***************************************************************************)
(* IsBigNumber and the BigNumberIs... family                               *)
(***************************************************************************)
\* most constraints registered for the one property
MaxConstraints == 4

\* BigNumber instances: NaN, the infinities, the two zeros, integers and
\* non-integers of either sign
BigNumbers ==
  {JsBigNumber(n) : n \in {"NaN", "Infinity", "-Infinity", "0", "-0",
                           "1", "-1", "0.5", "-0.5"}}

NonBigNumbers == {Undefined, JsNull, JsString("1"), JsNumber("1"), JsArray(<<>>)}

FieldValues == BigNumbers \cup NonBigNumbers

\* BigNumber.isBigNumber(value)
IsBigNumberInstance(x) == x.type = "BigNumber"

\* bignumber.js: isPositive is s > 0, isNegative is s < 0 (the sign of NaN is
\* null), isFinite holds of all but NaN and the infinities, isInteger of the
\* finite values without a fraction
BigNumberHolds(fn, b) ==
  CASE fn = "isPositive" -> b.v \in {"Infinity", "0", "1", "0.5"}
    [] fn = "isNegative" -> b.v \in {"-Infinity", "-0", "-1", "-0.5"}
    [] fn = "!isNegative" -> b.v \notin {"-Infinity", "-0", "-1", "-0.5"}
    [] fn = "isFinite" -> b.v \notin {"NaN", "Infinity", "-Infinity"}
    [] fn = "isInteger" -> b.v \in {"0", "-0", "1", "-1"}

\* a helper that rejects what is not a BigNumber
ValidateBigNumberOrFail(obj, fn) ==
  IF IsBigNumberInstance(obj) THEN BigNumberHolds(fn, obj) ELSE FALSE

\* validateBigNumberOrIgnore: lines 141-147
ValidateBigNumberOrIgnore(obj, fn) ==
  IF IsBigNumberInstance(obj) THEN BigNumberHolds(fn, obj) ELSE TRUE

Family ==
  {"BigNumberIsPositive", "BigNumberIsNegative", "BigNumberIsNotInfinity",
   "BigNumberIsNotNegative", "BigNumberIsInteger"}

\* the validate of each registered constraint
ValidateConstraint(name, x) ==
  CASE name = "IsBigNumber" -> IsBigNumberInstance(x)
    [] name = "BigNumberIsPositive" -> ValidateBigNumberOrIgnore(x, "isPositive")
    [] name = "BigNumberIsNegative" -> ValidateBigNumberOrIgnore(x, "isNegative")
    [] name = "BigNumberIsNotInfinity" -> ValidateBigNumberOrIgnore(x, "isFinite")
    [] name = "BigNumberIsNotNegative" -> ValidateBigNumberOrIgnore(x, "!isNegative")
    [] name = "BigNumberIsInteger" -> ValidateBigNumberOrIgnore(x, "isInteger")

\* registerDecorator: the constraint joins the property's metadata
RegisterDecorator(metadata, name) == Append(metadata, name)

\* IsBigNumber(validationOptions)(object, propertyName)
IsBigNumber(metadata) == RegisterDecorator(metadata, "IsBigNumber")

BigNumberIsPositive(metadata) ==
  RegisterDecorator(IsBigNumber(metadata), "BigNumberIsPositive")

BigNumberIsNegative(metadata) ==
  RegisterDecorator(IsBigNumber(metadata), "BigNumberIsNegative")

BigNumberIsNotInfinity(metadata) ==
  RegisterDecorator(IsBigNumber(metadata), "BigNumberIsNotInfinity")

BigNumberIsNotNegative(metadata) ==
  RegisterDecorator(IsBigNumber(metadata), "BigNumberIsNotNegative")

BigNumberIsInteger(metadata) ==
  RegisterDecorator(IsBigNumber(metadata), "BigNumberIsInteger")

\* validate(object): every registered constraint is evaluated, and those
\* that do not hold are reported in registration order
ViolatedConstraints(metadata, x) ==
  SelectSeq(metadata, LAMBDA name : ~ValidateConstraint(name, x))

BigInit ==
  /\ RegInit
  /\ ConcIdle
  /\ value \in FieldValues
  /\ relatedValue = Undefined
  /\ verdict = NoVerdict
  /\ constraints = <<>>
  /\ violations = <<>>
  /\ inserted = FALSE

\* decorators run when the class is defined, before any object is validated
Decorate(metadata) ==
  /\ verdict = NoVerdict
  /\ Len(metadata) <= MaxConstraints
  /\ constraints' = metadata
  /\ UNCHANGED <<value, relatedValue, verdict, violations, inserted>>
  /\ UNCHANGED <<regVars, concVars>>

DecorateIsBigNumber == Decorate(IsBigNumber(constraints))

DecorateBigNumberIsPositive == Decorate(BigNumberIsPositive(constraints))

DecorateBigNumberIsNegative == Decorate(BigNumberIsNegative(constraints))

DecorateBigNumberIsNotInfinity == Decorate(BigNumberIsNotInfinity(constraints))

DecorateBigNumberIsNotNegative == Decorate(BigNumberIsNotNegative(constraints))

DecorateBigNumberIsInteger == Decorate(BigNumberIsInteger(constraints))

ValidateObject ==
  /\ verdict = NoVerdict
  /\ violations' = ViolatedConstraints(constraints, value)
  /\ verdict' = Verdict("validate", ViolatedConstraints(constraints, value) = <<>>)
  /\ UNCHANGED <<value, relatedValue, constraints, inserted>>
  /\ UNCHANGED <<regVars, concVars>>

BigNext ==
  \/ DecorateIsBigNumber
  \/ DecorateBigNumberIsPositive
  \/ DecorateBigNumberIsNegative
  \/ DecorateBigNumberIsNotInfinity
  \/ DecorateBigNumberIsNotNegative
  \/ DecorateBigNumberIsInteger
  \/ ValidateObject

SpecBig == BigInit /\ [][BigNext]_vars

(***************************************************************************)
(* Properties of the registry under serial execution (Spec).               *)
(***************************************************************************)

\* C1: isAuthorized, called while the record has never been written, returns
\* false and raises no error, whoever calls.
C1_IsAuthorizedAbsentReturnsFalse ==
  (response.op = "isAuthorized" /\ ~prior.exists)
    => (response.status = "ok" /\ response.value = FALSE)

\* C2: deauthorize, called while the record has never been written, signals
\* NotFound and writes nothing: the record is still absent afterwards.
C2_DeauthorizeAbsentNotFound ==
  (response.op = "deauthorize" /\ ~prior.exists)
    => /\ response.status = "NOT_FOUND"
       /\ ledger = Absent
       /\ "putChainObject" \notin Range(calls)

C2_Witness ==
  /\ response.op = "deauthorize"
  /\ response.dto = <<"alice">>
  /\ ~prior.exists
  /\ response.status = "NOT_FOUND"

\* C3: once a first authorize has run, the record holds exactly the
\* principals that were authorized and not deauthorized afterwards; list
\* returns that set and isAuthorized answers membership of the caller in it.
C3_ListIsGrantedSet ==
  /\ ledger.exists => Range(ledger.authorities) = granted
  /\ (response.op = "list" /\ prior.exists)
       => /\ response.status = "ok"
          /\ Range(response.authorities) = granted
  /\ (response.op = "isAuthorized" /\ prior.exists)
       => /\ response.status = "ok"
          /\ response.value = (response.caller \in granted)

\* authorize alice, authorize bob, deauthorize alice: the record holds bob
C3_Witness ==
  /\ response.op = "deauthorize"
  /\ response.dto = <<"alice">>
  /\ prior = Record(<<"alice", "bob">>)
  /\ ledger = Record(<<"bob">>)
  /\ granted = {"bob"}

\* C4: authorize is idempotent: a principal already held is not added again
\* (within one call or across calls), and the persisted set never holds a
\* principal twice.
C4_AuthorizeIdempotent ==
  /\ NoDuplicates(ledger.authorities)
  /\ response.op = "authorize"
       => /\ Range(response.dto) \subseteq Range(prior.authorities)
               => ledger.authorities = prior.authorities
          /\ Len(ledger.authorities) =
               Len(prior.authorities)
                 + Cardinality(Range(response.dto) \ Range(prior.authorities))

\* alice, already held, authorized again twice in one call: still size 1
C4_Witness ==
  /\ response.op = "authorize"
  /\ response.dto = <<"alice", "alice">>
  /\ prior = Record(<<"alice">>)
  /\ ledger = Record(<<"alice">>)

\* C5: an authorize call made by a caller who is not in the persisted set
\* adds no principal to the set.
C5_OnlyMembersAuthorize ==
  (response.op = "authorize" /\ response.caller \notin Range(prior.authorities))
    => Range(ledger.authorities) \subseteq Range(prior.authorities)

\* C6 (as stated): the list authorize and deauthorize return is read back
\* from the record after the write: a getObjectByKey follows the
\* putChainObject.
C6_ResponseReadBack ==
  (response.op \in {"authorize", "deauthorize"} /\ response.status = "ok")
    => \E i, j \in 1..Len(calls) :
         /\ i < j
         /\ calls[i] = "putChainObject"
         /\ calls[j] = "getObjectByKey"

\* C6 (amended): the list authorize and deauthorize return is that of the
\* in-memory object the call has just written, with no read after the write;
\* under serial execution it equals the content of the record.
C6_ResponseIsWrittenObject ==
  (response.op \in {"authorize", "deauthorize"} /\ response.status = "ok")
    => /\ calls = <<"getObjectByKey", "putChainObject">>
       /\ ledger.exists
       /\ response.authorities = ledger.authorities

C6_Witness ==
  /\ response.op = "authorize"
  /\ response.status = "ok"
  /\ prior = Record(<<"alice">>)
  /\ response.authorities = <<"alice", "bob">>


(***************************************************************************)
(* Properties of the registry under interleaved execution (SpecConc).      *)
(***************************************************************************)
BothAuthorized(r1, r2) ==
  /\ r1 # r2
  /\ tx[r1].pc = "done" /\ tx[r1].op = "authorize"
  /\ tx[r2].pc = "done" /\ tx[r2].op = "authorize"
  /\ Range(tx[r1].dto) \cap Range(tx[r2].dto) = {}

\* r2 read the record only after r1 had written it
SerializedOrder(r1, r2) == tx[r1].wroteAt <= tx[r2].readAt

\* both read the record before either wrote it, and r2 wrote last
BothReadFirst(r1, r2) ==
  /\ tx[r1].readAt < tx[r2].wroteAt
  /\ tx[r2].readAt < tx[r1].wroteAt
  /\ tx[r1].wroteAt < tx[r2].wroteAt

\* C10: two authorize requests for different principals: run one after the
\* other, in either order, the persisted set ends up holding both
\* principals; when both read the record before either writes it, the
\* persisted set ends up as what the last writer read plus the last writer's
\* principals, so the first writer's principal is lost.
C10_LostUpdateUnlessSerialized ==
  \A r1, r2 \in Requests :
    BothAuthorized(r1, r2) =>
      /\ SerializedOrder(r1, r2)
           => Range(tx[r1].dto) \cup Range(tx[r2].dto) \subseteq Range(ledger.authorities)
      /\ BothReadFirst(r1, r2)
           => /\ Range(ledger.authorities) = Range(tx[r2].seen) \cup Range(tx[r2].dto)
              /\ tx[r2].seen = tx[r1].seen
              /\ \A p \in Range(tx[r1].dto) :
                   p \notin Range(tx[r1].seen) => p \notin Range(ledger.authorities)

\* alice and bob authorized at once on an absent record: only bob is kept
C10_Witness ==
  /\ BothAuthorized("r1", "r2")
  /\ BothReadFirst("r1", "r2")
  /\ tx["r1"].dto = <<"alice">>
  /\ tx["r2"].dto = <<"bob">>
  /\ tx["r1"].result = <<"alice">>
  /\ ledger = Record(<<"bob">>)

(***************************************************************************)
(* Properties of the validators (SpecDiff, SpecArr).                       *)
(***************************************************************************)
BothStrings == TypeOf(value) = "string" /\ TypeOf(relatedValue) = "string"

BothUndefined == value = Undefined /\ relatedValue = Undefined

DefinedNonString(x) == x # Undefined /\ TypeOf(x) # "string"

\* C7 (as stated): IsDifferentValue passes iff the two properties are both
\* undefined or both strings with different content, fails for two equal
\* strings, and throws when either defined value is not a string.
C7_PassesIffBothUndefinedOrDistinctStrings ==
  verdict.validator = "IsDifferentValue" =>
    /\ verdict.outcome = "pass"
         <=> (BothUndefined \/ (BothStrings /\ value.v # relatedValue.v))
    /\ (BothStrings /\ value.v = relatedValue.v) => verdict.outcome = "fail"
    /\ (DefinedNonString(value) \/ DefinedNonString(relatedValue))
         => verdict.outcome = "throw"

\* C7 (amended): IsDifferentValue throws iff either defined value is not a
\* string; otherwise it passes iff the two are not strictly equal, that is,
\* both strings with different content or exactly one of them undefined; it
\* fails for two equal strings and for two undefined values.
C7_PassesIffNotStrictlyEqual ==
  verdict.validator = "IsDifferentValue" =>
    /\ verdict.outcome = "throw"
         <=> (DefinedNonString(value) \/ DefinedNonString(relatedValue))
    /\ verdict.outcome = "pass"
         <=> \/ BothStrings /\ value.v # relatedValue.v
             \/ value = Undefined /\ TypeOf(relatedValue) = "string"
             \/ TypeOf(value) = "string" /\ relatedValue = Undefined
    /\ verdict.outcome = "fail"
         <=> \/ BothStrings /\ value.v = relatedValue.v
             \/ BothUndefined

\* both properties undefined: the check fails
C7_Witness ==
  /\ verdict.validator = "IsDifferentValue"
  /\ BothUndefined
  /\ verdict.outcome = "fail"

\* C9: ArrayUniqueConcat passes iff no element occurs twice within the
\* decorated array, none occurs twice within the related array and none
\* occurs in both; a passing pair with any such duplicate inserted fails.
C9_PassesIffNoDuplicateAnywhere ==
  verdict.validator = "ArrayUniqueConcat" =>
    /\ verdict.outcome = "pass"
         <=> /\ NoDuplicates(value.v)
             /\ NoDuplicates(relatedValue.v)
             /\ Range(value.v) \cap Range(relatedValue.v) = {}
    /\ inserted => verdict.outcome = "fail"

\* t1, held by the related array only, inserted into it again
C9_Witness ==
  /\ verdict.validator = "ArrayUniqueConcat"
  /\ inserted
  /\ value.v = <<"t2">>
  /\ relatedValue.v = <<"t1", "t3", "t1">>
  /\ verdict.outcome = "fail"

(***************************************************************************)
(* Properties of the BigNumber constraints (SpecBig).                      *)
(***************************************************************************)
\* C8: each BigNumberIs... decorator registers IsBigNumber for the property
\* with it; a value that is not a BigNumber passes each of the five
\* predicates and fails IsBigNumber, so the object is rejected and every
\* violation reported for the property is the IsBigNumber one.
C8_WrongTypeReportedByIsBigNumberOnly ==
  /\ \A i \in 1..Len(constraints) :
       constraints[i] \in Family => (i > 1 /\ constraints[i - 1] = "IsBigNumber")
  /\ ~IsBigNumberInstance(value)
       => /\ \A name \in Family : ValidateConstraint(name, value)
          /\ ~ValidateConstraint("IsBigNumber", value)
  /\ ( /\ verdict.validator = "validate"
       /\ ~IsBigNumberInstance(value)
       /\ Range(constraints) \cap Family # {} )
       => /\ verdict.outcome = "fail"
          /\ Range(violations) = {"IsBigNumber"}

\* the string "1" under BigNumberIsPositive: one violation, IsBigNumber
C8_Witness ==
  /\ verdict.validator = "validate"
  /\ value = JsString("1")
  /\ constraints = <<"IsBigNumber", "BigNumberIsPositive">>
  /\ violations = <<"IsBigNumber">>
  /\ verdict.outcome = "fail"

(***************************************************************************)
(* Lifetime of the record under serial execution (Spec).                   *)
(***************************************************************************)
\* C11: once an authorize has succeeded the record exists in every later
\* state: no request deletes it; deauthorizing the last remaining principal
\* leaves a record holding the empty set, after which list returns the empty
\* set and deauthorize succeeds instead of signalling NotFound.
C11_RecordPersistsOnceCreated ==
  /\ response.op = "authorize" => (response.status = "ok" /\ ledger.exists)
  /\ prior.exists => ledger.exists
  /\ (response.op = "deauthorize" /\ prior.exists)
       => /\ response.status = "ok"
          /\ Range(prior.authorities) \subseteq Range(response.dto)
               => (ledger = Record(<<>>) /\ response.authorities = <<>>)
  /\ (response.op = "list" /\ prior = Record(<<>>))
       => (response.status = "ok" /\ response.authorities = <<>>)

\* alice, the last principal, has been deauthorized; deauthorizing her once
\* more finds the empty record and succeeds
C11_Witness ==
  /\ response.op = "deauthorize"
  /\ response.dto = <<"alice">>
  /\ prior = Record(<<>>)
  /\ response.status = "ok"
  /\ ledger = Record(<<>>)

=============================================================================
